---- MODULE Spec2Model ----
(***************************************************************************)
(* A model of src/src/iterating.ts: lazy iterator combinators (zip, range, *)
(* repeat, map, reverse, smear), the eager consumers built on              *)
(* applyOnEachOf (reduce, checkAllFulfill, checkAnyFulfills, spread), the  *)
(* PeekableIterator wrapper and the IteratorObject facade.                 *)
(*                                                                         *)
(* JavaScript objects are held by reference, so the model keeps a heap:    *)
(* a sequence of objects, an object's id being its index.  An iterator's   *)
(* next() is the operator IterNext(h, id), which returns the heap after    *)
(* the call and the IteratorResult.  A generator function is an object     *)
(* holding its local variables and the place (pc) where it is suspended.   *)
(***************************************************************************)
EXTENDS Integers, Sequences, FiniteSets

VARIABLES heap, args, out

vars == <<heap, args, out>>

(***************************************************************************)
(* Bounds of the model.                                                    *)
(***************************************************************************)
MaxLen == 3
MaxVal == 3
MaxArity == 2
MaxRange == 5
MaxStep == 2
MaxTimes == 3
MaxCalls == 5

Values == 1..MaxVal

Arrays == UNION {[1..n -> Values] : n \in 0..MaxLen}

Last(s) == s[Len(s)]

Front(s) == SubSeq(s, 1, Len(s) - 1)

(***************************************************************************)
(* IteratorResult: {done: false, value: v} or {done: true}.                *)
(***************************************************************************)
Value(v) == [done |-> FALSE, value |-> v]

Done == [done |-> TRUE]

(***************************************************************************)
(* The heap.                                                               *)
(***************************************************************************)
Alloc(h, obj) == [heap |-> Append(h, obj), id |-> Len(h) + 1]

Store(h, id, obj) == [h EXCEPT ![id] = obj]

(***************************************************************************)
(* Array.prototype.values(): the source iterators the tests supply.        *)
(* index counts the elements delivered; pulls counts the next() calls      *)
(* made on the iterator (an observer, not read by any operation).          *)
(***************************************************************************)
ArrayIterator(array) ==
    [kind |-> "array", array |-> array, index |-> 0, pulls |-> 0]

ArrayIteratorNext(h, id) ==
    LET it == h[id] IN
    IF it.index < Len(it.array)
    THEN [heap |-> Store(h, id, [it EXCEPT !.index = @ + 1, !.pulls = @ + 1]),
          result |-> Value(it.array[it.index + 1])]
    ELSE [heap |-> Store(h, id, [it EXCEPT !.pulls = @ + 1]),
          result |-> Done]

(***************************************************************************)
(* function* range(start, stop, stepSize, stopIncluded)                    *)
(***************************************************************************)
range(h, start, stop, stepSize, stopIncluded) ==
    Alloc(h, [kind |-> "range", start |-> start, stop |-> stop,
              stepSize |-> stepSize, stopIncluded |-> stopIncluded,
              i |-> start, pc |-> "start"])

\* a faulty continuePredicate that also accepts i = stop (C6 fails of it)
continuePredicateInclusive(isIncreasing, i, stop) ==
    IF isIncreasing THEN i <= stop ELSE i >= stop

continuePredicate(isIncreasing, i, stop) ==
    IF isIncreasing THEN i < stop ELSE i > stop

\* the generator body from the test of the for loop on, with loop variable i
rangeLoop(h, id, i) ==
    LET g == h[id]
        isIncreasing == g.stepSize > 0
    IN  IF continuePredicate(isIncreasing, i, g.stop)
        THEN [heap |-> Store(h, id, [g EXCEPT !.i = i, !.pc = "yieldI"]),
              result |-> Value(i)]
        ELSE IF g.stopIncluded
             THEN [heap |-> Store(h, id, [g EXCEPT !.i = i, !.pc = "yieldStop"]),
                   result |-> Value(g.stop)]
             ELSE [heap |-> Store(h, id, [g EXCEPT !.i = i, !.pc = "done"]),
                   result |-> Done]

rangeResume(h, id) ==
    LET g == h[id] IN
    CASE g.pc = "start" -> rangeLoop(h, id, g.start)
      [] g.pc = "yieldI" -> rangeLoop(h, id, g.i + g.stepSize)
      [] g.pc = "yieldStop" ->
            [heap |-> Store(h, id, [g EXCEPT !.pc = "done"]), result |-> Done]
      [] OTHER -> [heap |-> h, result |-> Done]

RECURSIVE IterNext(_, _)
RECURSIVE spreadLoop(_, _, _)

(***************************************************************************)
(* IterableIteratorWrapper.next(): for..of over wrapWithIterable(iterator) *)
(* pulls the wrapped iterator; the wrapper has no return() method, so      *)
(* leaving the loop early does nothing to the iterator.                    *)
(***************************************************************************)
WrapperNext(h, iterator) == IterNext(h, iterator)

(***************************************************************************)
(* spread(iterator): [...wrapWithIterable(iterator)]                       *)
(***************************************************************************)
spreadLoop(h, iterator, array) ==
    LET r == WrapperNext(h, iterator) IN
    IF r.result.done
    THEN [heap |-> r.heap, array |-> array]
    ELSE spreadLoop(r.heap, iterator, Append(array, r.result.value))

spread(h, iterator) == spreadLoop(h, iterator, <<>>)

(***************************************************************************)
(* function* repeat(value, times)                                          *)
(***************************************************************************)
repeat(h, value, times) ==
    Alloc(h, [kind |-> "repeat", value |-> value, times |-> times,
              inner |-> 0, pc |-> "start"])

\* one turn of `for (const _ of range(...)) yield value`
repeatLoop(h, id, inner) ==
    LET r == IterNext(h, inner)
        g == r.heap[id]
    IN  IF r.result.done
        THEN [heap |-> Store(r.heap, id, [g EXCEPT !.inner = inner, !.pc = "done"]),
              result |-> Done]
        ELSE [heap |-> Store(r.heap, id, [g EXCEPT !.inner = inner, !.pc = "yield"]),
              result |-> Value(g.value)]

repeatResume(h, id) ==
    LET g == h[id] IN
    CASE g.pc = "start" ->
            LET a == range(h, 1, g.times, 1, TRUE) IN repeatLoop(a.heap, id, a.id)
      [] g.pc = "yield" -> repeatLoop(h, id, g.inner)
      [] OTHER -> [heap |-> h, result |-> Done]

(***************************************************************************)
(* function* map(iterator, functor)                                        *)
(***************************************************************************)
map(h, iterator, functor) ==
    Alloc(h, [kind |-> "map", iterator |-> iterator, functor |-> functor,
              pc |-> "start"])

mapResume(h, id) ==
    LET g == h[id] IN
    IF g.pc = "done"
    THEN [heap |-> h, result |-> Done]
    ELSE LET r == WrapperNext(h, g.iterator) IN
         IF r.result.done
         THEN [heap |-> Store(r.heap, id, [g EXCEPT !.pc = "done"]),
               result |-> Done]
         ELSE [heap |-> Store(r.heap, id, [g EXCEPT !.pc = "yield"]),
               result |-> Value(g.functor[r.result.value])]

(***************************************************************************)
(* function* reverse(iterator)                                             *)
(***************************************************************************)
reverse(h, iterator) ==
    Alloc(h, [kind |-> "reverse", iterator |-> iterator, sequence |-> <<>>,
              pc |-> "start"])

\* a faulty loop that takes the first element, sequence.shift() (C9 fails of it)
reverseLoopShift(h, id, sequence) ==
    LET g == h[id] IN
    IF Len(sequence) > 0
    THEN [heap |-> Store(h, id, [g EXCEPT !.sequence = Tail(sequence),
                                          !.pc = "yield"]),
          result |-> Value(Head(sequence))]
    ELSE [heap |-> Store(h, id, [g EXCEPT !.sequence = sequence, !.pc = "done"]),
          result |-> Done]

\* `while (sequence.length > 0) yield sequence.pop()`
reverseLoop(h, id, sequence) ==
    LET g == h[id] IN
    IF Len(sequence) > 0
    THEN [heap |-> Store(h, id, [g EXCEPT !.sequence = Front(sequence),
                                          !.pc = "yield"]),
          result |-> Value(Last(sequence))]
    ELSE [heap |-> Store(h, id, [g EXCEPT !.sequence = sequence, !.pc = "done"]),
          result |-> Done]

reverseResume(h, id) ==
    LET g == h[id] IN
    CASE g.pc = "start" ->
            LET s == spread(h, g.iterator) IN reverseLoop(s.heap, id, s.array)
      [] g.pc = "yield" -> reverseLoop(h, id, g.sequence)
      [] OTHER -> [heap |-> h, result |-> Done]

(***************************************************************************)
(* function* smear(iterator, functor, initialValue)                        *)
(***************************************************************************)
smear(h, iterator, functor, initialValue) ==
    Alloc(h, [kind |-> "smear", iterator |-> iterator, functor |-> functor,
              valueToGiveOn |-> initialValue, pc |-> "start"])

smearResume(h, id) ==
    LET g == h[id] IN
    IF g.pc = "done"
    THEN [heap |-> h, result |-> Done]
    ELSE LET r == WrapperNext(h, g.iterator) IN
         IF r.result.done
         THEN [heap |-> Store(r.heap, id, [g EXCEPT !.pc = "done"]),
               result |-> Done]
         ELSE LET result == g.functor[g.valueToGiveOn, r.result.value] IN
              [heap |-> Store(r.heap, id, [g EXCEPT !.valueToGiveOn = result.giveOn,
                                                    !.pc = "yield"]),
               result |-> Value(result.yield)]

\* the functor of sumCumulatively, on the sums the bounded sources can reach
sumFunctor ==
    [givenOn \in 0..(MaxLen * MaxVal), element \in Values |->
        LET cumulativeSum == givenOn + element IN
        [giveOn |-> cumulativeSum, yield |-> cumulativeSum]]

sumCumulatively(h, iterator) == smear(h, iterator, sumFunctor, 0)

(***************************************************************************)
(* class PeekableIterator                                                  *)
(***************************************************************************)
PeekableIteratorNew(h, iterator) ==
    LET r == IterNext(h, iterator) IN
    Alloc(r.heap, [kind |-> "peekable", iterator |-> iterator,
                   nextResult |-> r.result])

\* a faulty next() that returns the result it has just fetched (C7 fails of it)
PeekableIteratorNextFetched(h, id) ==
    LET r == IterNext(h, h[id].iterator) IN
    [heap |-> Store(r.heap, id, [r.heap[id] EXCEPT !.nextResult = r.result]),
     result |-> r.result]

PeekableIteratorNext(h, id) ==
    LET currentResult == h[id].nextResult
        r == IterNext(h, h[id].iterator)
    IN  [heap |-> Store(r.heap, id, [r.heap[id] EXCEPT !.nextResult = r.result]),
         result |-> currentResult]

PeekableIteratorPeek(h, id) == [heap |-> h, result |-> h[id].nextResult]

(***************************************************************************)
(* class IteratorObject: constructor and next()                            *)
(***************************************************************************)
IteratorObjectNew(h, iterator) ==
    Alloc(h, [kind |-> "IteratorObject", iterator |-> iterator])

IteratorObjectNext(h, id) == IterNext(h, h[id].iterator)

(***************************************************************************)
(* IteratorObject.map, .reverse, .smear: the combinator is given           *)
(* this._iterator and its generator is wrapped in a new IteratorObject.    *)
(***************************************************************************)
\* a faulty map() that gives the combinator a copy of this._iterator, so that
\* the two facades no longer pull the same source (C8 fails of it)
IteratorObjectMapCopy(h, id, functor) ==
    [heap |-> h \o <<[kind |-> "map", iterator |-> Len(h) + 3,
                      functor |-> functor, pc |-> "start"],
                     [kind |-> "IteratorObject", iterator |-> Len(h) + 1],
                     h[h[id].iterator]>>,
     id |-> Len(h) + 2]

IteratorObjectMap(h, id, functor) ==
    LET iterator == map(h, h[id].iterator, functor) IN
    IteratorObjectNew(iterator.heap, iterator.id)

IteratorObjectReverse(h, id) ==
    LET iterator == reverse(h, h[id].iterator) IN
    IteratorObjectNew(iterator.heap, iterator.id)

IteratorObjectSmear(h, id, functor, initialValue) ==
    LET iterator == smear(h, h[id].iterator, functor, initialValue) IN
    IteratorObjectNew(iterator.heap, iterator.id)

(***************************************************************************)
(* iterator.next(), by the class of the object                             *)
(***************************************************************************)
IterNext(h, id) ==
    CASE h[id].kind = "array" -> ArrayIteratorNext(h, id)
      [] h[id].kind = "range" -> rangeResume(h, id)
      [] h[id].kind = "repeat" -> repeatResume(h, id)
      [] h[id].kind = "map" -> mapResume(h, id)
      [] h[id].kind = "reverse" -> reverseResume(h, id)
      [] h[id].kind = "smear" -> smearResume(h, id)
      [] h[id].kind = "peekable" -> PeekableIteratorNext(h, id)
      [] h[id].kind = "IteratorObject" -> IteratorObjectNext(h, id)

(***************************************************************************)
(* applyOnEachOf(iterator, functor).  A functor is a closure: env is the   *)
(* variable it captures and assigns, and functor[env, element] gives the   *)
(* env after the call and whether the call invoked breakAfterIteration.    *)
(* calls lists the elements the functor was called with (an observer).     *)
(***************************************************************************)
RECURSIVE applyLoop(_, _, _, _, _)
applyLoop(h, iterator, functor, env, calls) ==
    LET r == WrapperNext(h, iterator) IN
    IF r.result.done
    THEN [heap |-> r.heap, env |-> env, calls |-> calls]
    ELSE LET f == functor[env, r.result.value]
             shouldBreakAfterIteration == f.brk
         IN  IF shouldBreakAfterIteration
             THEN [heap |-> r.heap, env |-> f.env,
                   calls |-> Append(calls, r.result.value)]
             ELSE applyLoop(r.heap, iterator, functor, f.env,
                            Append(calls, r.result.value))

\* a faulty applyOnEachOf that never leaves the loop early (C2 fails of it)
RECURSIVE applyLoopNoBreak(_, _, _, _, _)
applyLoopNoBreak(h, iterator, functor, env, calls) ==
    LET r == WrapperNext(h, iterator) IN
    IF r.result.done
    THEN [heap |-> r.heap, env |-> env, calls |-> calls]
    ELSE applyLoopNoBreak(r.heap, iterator, functor,
                          functor[env, r.result.value].env,
                          Append(calls, r.result.value))

applyOnEachOfNoBreak(h, iterator, functor, env) ==
    applyLoopNoBreak(h, iterator, functor, env, <<>>)

applyOnEachOf(h, iterator, functor, env) ==
    applyLoop(h, iterator, functor, env, <<>>)

(***************************************************************************)
(* reduce(iterator, functor, initialValue): functor[accumulator, element]  *)
(* gives the returned accumulator (ret) and whether breakAfterIteration    *)
(* was invoked (brk).                                                      *)
(***************************************************************************)
\* a faulty reduce that drops what the breaking functor call returned
\* (C10 fails of it)
reduceDropsBreakingCall(h, iterator, functor, initialValue) ==
    LET applyFunctor == [x \in DOMAIN functor |->
                            [env |-> IF functor[x].brk THEN x[1] ELSE functor[x].ret,
                             brk |-> functor[x].brk]]
        a == applyOnEachOf(h, iterator, applyFunctor, initialValue)
    IN  [heap |-> a.heap, result |-> a.env, calls |-> a.calls]

reduce(h, iterator, functor, initialValue) ==
    LET applyFunctor == [x \in DOMAIN functor |->
                            [env |-> functor[x].ret, brk |-> functor[x].brk]]
        a == applyOnEachOf(h, iterator, applyFunctor, initialValue)
    IN  [heap |-> a.heap, result |-> a.env, calls |-> a.calls]

(***************************************************************************)
(* checkAllFulfill(iterator, predicate)                                    *)
(***************************************************************************)
\* a faulty checkAllFulfill that never breaks early (C4 fails of it)
checkAllFulfillNoBreak(h, iterator, predicate) ==
    LET reduceFunctor ==
            [accumulator \in BOOLEAN, element \in DOMAIN predicate |->
                [ret |-> accumulator /\ predicate[element], brk |-> FALSE]]
    IN  reduce(h, iterator, reduceFunctor, TRUE)

checkAllFulfill(h, iterator, predicate) ==
    LET reduceFunctor ==
            [accumulator \in BOOLEAN, element \in DOMAIN predicate |->
                LET elementFulfillsPredicate == predicate[element] IN
                [ret |-> accumulator /\ elementFulfillsPredicate,
                 brk |-> ~elementFulfillsPredicate]]
    IN  reduce(h, iterator, reduceFunctor, TRUE)

(***************************************************************************)
(* checkAnyFulfills(iterator, predicate)                                   *)
(***************************************************************************)
\* a faulty checkAnyFulfills that does not negate the predicate (C3 fails of it)
checkAnyFulfillsNotNegated(h, iterator, predicate) ==
    LET r == checkAllFulfill(h, iterator, predicate)
    IN  [heap |-> r.heap, result |-> ~r.result, calls |-> r.calls]

checkAnyFulfills(h, iterator, predicate) ==
    LET negatedPredicate == [element \in DOMAIN predicate |-> ~predicate[element]]
        r == checkAllFulfill(h, iterator, negatedPredicate)
    IN  [heap |-> r.heap, result |-> ~r.result, calls |-> r.calls]

(***************************************************************************)
(* function* zip(iterators).  A throw is the result                       *)
(* [error |-> message]; a generator that threw is finished.                *)
(***************************************************************************)
UnequalLength == [error |-> "some iterators are consumed before others"]

IsError(result) == "error" \in DOMAIN result

zip(h, iterators) ==
    Alloc(h, [kind |-> "zip", iterators |-> iterators, pc |-> "start"])

\* iterators.map(i => i.next())
RECURSIVE nextOfEach(_, _, _)
nextOfEach(h, iterators, results) ==
    IF Len(results) = Len(iterators)
    THEN [heap |-> h, results |-> results]
    ELSE LET r == IterNext(h, iterators[Len(results) + 1]) IN
         nextOfEach(r.heap, iterators, Append(results, r.result))

\* results.values()
ArrayValues(array) == Alloc(<<>>, ArrayIterator(array))

\* a faulty loop that ends the output when the iterators disagree instead of
\* throwing (C1 fails of it)
zipLoopTruncating(h, id) ==
    LET g == h[id]
        n == nextOfEach(h, g.iterators, <<>>)
        results == n.results
    IN  IF \A j \in 1..Len(results) : ~results[j].done
        THEN [heap |-> Store(n.heap, id, [g EXCEPT !.pc = "yield"]),
              result |-> Value([j \in 1..Len(results) |-> results[j].value])]
        ELSE [heap |-> Store(n.heap, id, [g EXCEPT !.pc = "done"]),
              result |-> Done]

\* one turn of the do..while loop
zipLoop(h, id) ==
    LET g == h[id]
        n == nextOfEach(h, g.iterators, <<>>)
        results == n.results
        resultHasNext ==
            [result \in {results[j] : j \in 1..Len(results)} |-> ~result.done]
        v1 == ArrayValues(results)
        someHaveNext == checkAnyFulfills(v1.heap, v1.id, resultHasNext).result
        v2 == ArrayValues(results)
        allHaveNext == checkAllFulfill(v2.heap, v2.id, resultHasNext).result
    IN  IF someHaveNext /\ ~allHaveNext
        THEN [heap |-> Store(n.heap, id, [g EXCEPT !.pc = "failed"]),
              result |-> UnequalLength]
        ELSE IF allHaveNext
             THEN [heap |-> Store(n.heap, id, [g EXCEPT !.pc = "yield"]),
                   result |-> Value([j \in 1..Len(results) |-> results[j].value])]
             ELSE [heap |-> Store(n.heap, id, [g EXCEPT !.pc = "done"]),
                   result |-> Done]

zipResume(h, id) ==
    IF h[id].pc \in {"start", "yield"}
    THEN zipLoop(h, id)
    ELSE [heap |-> h, result |-> Done]

(***************************************************************************)
(* Inputs of the eager consumers.  A predicate is given by the set sat of  *)
(* the values that fulfil it.  The reduce functor of the spec's example,   *)
(* (acc, e, brk) => e > 3 ? (brk(), acc) : acc + e, is the member          *)
(* sat = {1,2,3}, addOnBreak = FALSE of the family below on sources of     *)
(* positive numbers; with addOnBreak the breaking call adds its element    *)
(* too, so that its return value differs from the accumulator before it.   *)
(***************************************************************************)
Predicate(sat) == [element \in Int |-> element \in sat]

ReduceFunctor(sat, addOnBreak) ==
    [accumulator \in Int, element \in Int |->
        IF element \in sat
        THEN [ret |-> accumulator + element, brk |-> FALSE]
        ELSE [ret |-> IF addOnBreak THEN accumulator + element ELSE accumulator,
              brk |-> TRUE]]

ExampleSource == <<1, 2, 3, 4, 5>>

ExampleSat == {1, 2, 3}

(***************************************************************************)
(* Specification SpecEager: one eager consumer is called on a fresh array  *)
(* iterator (object 1); afterwards the caller pulls what is left of it.    *)
(***************************************************************************)
InitEager ==
    /\ args \in [array : Arrays \cup {ExampleSource},
                 sat : (SUBSET Values) \cup {ExampleSat},
                 addOnBreak : BOOLEAN]
    /\ heap = <<ArrayIterator(args.array)>>
    /\ out = <<>>

\* what the caller sees of a call: its result, the elements the functor
\* got, and the source's state when the call returned
Returned(op, r) ==
    [op |-> op, result |-> r.result, calls |-> r.calls,
     pulls |-> r.heap[1].pulls,
     pulled |-> SubSeq(r.heap[1].array, 1, r.heap[1].index)]

CallReduce ==
    /\ out = <<>>
    /\ LET r == reduce(heap, 1, ReduceFunctor(args.sat, args.addOnBreak), 0) IN
        /\ heap' = r.heap
        /\ out' = <<Returned("reduce", r)>>
    /\ UNCHANGED args

CallCheckAllFulfill ==
    /\ out = <<>>
    /\ LET r == checkAllFulfill(heap, 1, Predicate(args.sat)) IN
        /\ heap' = r.heap
        /\ out' = <<Returned("checkAllFulfill", r)>>
    /\ UNCHANGED args

CallCheckAnyFulfills ==
    /\ out = <<>>
    /\ LET r == checkAnyFulfills(heap, 1, Predicate(args.sat)) IN
        /\ heap' = r.heap
        /\ out' = <<Returned("checkAnyFulfills", r)>>
    /\ UNCHANGED args

\* the caller pulls the source after the call, until it reports exhaustion
SourceNext ==
    /\ out # <<>>
    /\ ~(Last(out).op = "next" /\ Last(out).result.done)
    /\ LET r == IterNext(heap, 1) IN
        /\ heap' = r.heap
        /\ out' = Append(out, [op |-> "next", result |-> r.result])
    /\ UNCHANGED args

NextEager == CallReduce \/ CallCheckAllFulfill \/ CallCheckAnyFulfills \/ SourceNext

SpecEager == InitEager /\ [][NextEager]_vars

(***************************************************************************)
(* Properties of the eager consumers (SpecEager).                          *)
(***************************************************************************)
RECURSIVE Sum(_)
Sum(s) == IF s = <<>> THEN 0 ELSE Sum(Front(s)) + Last(s)

\* the position of the first element of array outside sat, 0 if there is none
FirstOutside(array, sat) ==
    LET outside == {i \in 1..Len(array) : array[i] \notin sat} IN
    IF outside = {} THEN 0
    ELSE CHOOSE i \in outside : \A j \in outside : i <= j

Called(op) == out # <<>> /\ out[1].op = op

\* the results of the pulls the caller made on the source after the call
PulledAfter == [i \in 1..(Len(out) - 1) |-> out[i + 1].result]

IsExample ==
    /\ args.array = ExampleSource
    /\ args.sat = ExampleSat
    /\ ~args.addOnBreak
    /\ Called("reduce")

\* C2 as stated: reduce over 1,2,3,4,5 with the functor that breaks on e > 3
\* returns 6 and has pulled neither 4 nor 5 from the source when it returns.
C2_AsStated ==
    IsExample =>
        /\ out[1].result = 6
        /\ \A i \in 1..Len(out[1].pulled) : out[1].pulled[i] \notin {4, 5}

\* C2 amended: the same call returns 6 having pulled 1,2,3,4 (the functor was
\* called with 4, the element it breaks on) and not 5: the pulls of the source
\* that follow yield 5 and then exhaustion.
C2_ReduceExample ==
    IsExample =>
        /\ out[1].result = 6
        /\ out[1].pulled = <<1, 2, 3, 4>>
        /\ out[1].calls = <<1, 2, 3, 4>>
        /\ \A i \in 1..(Len(out) - 1) :
              PulledAfter[i] = <<Value(5), Done>>[i]

C2_Witness == IsExample /\ Len(out) = 3

\* C10: if the functor invokes the early-break callback on the k-th pulled
\* element, it was called with exactly the first k elements in order, the
\* source was pulled exactly k times when the call returned and reduce returns
\* what the k-th functor call returned; if it never does, the functor is called
\* once for every element and the source is pulled until it reports exhaustion.
C10_EarlyBreak ==
    Called("reduce") =>
        LET a == args.array
            k == FirstOutside(a, args.sat)
        IN  IF k > 0
            THEN /\ out[1].calls = SubSeq(a, 1, k)
                 /\ out[1].pulls = k
                 /\ out[1].pulled = SubSeq(a, 1, k)
                 /\ out[1].result = IF args.addOnBreak
                                    THEN Sum(SubSeq(a, 1, k))
                                    ELSE Sum(SubSeq(a, 1, k - 1))
            ELSE /\ out[1].calls = a
                 /\ out[1].pulls = Len(a) + 1
                 /\ out[1].pulled = a
                 /\ out[1].result = Sum(a)

C10_Witness ==
    /\ Called("reduce")
    /\ args.addOnBreak
    /\ Len(args.array) = 3
    /\ FirstOutside(args.array, args.sat) = 2
    /\ Len(out) = 3

\* C4: checkAllFulfill returns true iff every element of the source fulfils
\* the predicate (true for no elements), and when an element fails it, nothing
\* after the first such element has been pulled from the source.
C4_CheckAll ==
    Called("checkAllFulfill") =>
        LET a == args.array
            k == FirstOutside(a, args.sat)
        IN  /\ out[1].result = (\A i \in 1..Len(a) : a[i] \in args.sat)
            /\ a = <<>> => out[1].result = TRUE
            /\ k > 0 => /\ out[1].pulled = SubSeq(a, 1, k)
                        /\ out[1].pulls = k
                        /\ \A i \in 1..(Len(out) - 1) :
                              PulledAfter[i] =
                                IF k + i <= Len(a) THEN Value(a[k + i]) ELSE Done

C4_Witness ==
    /\ Called("checkAllFulfill")
    /\ Len(args.array) = 3
    /\ FirstOutside(args.array, args.sat) = 2
    /\ out[1].result = FALSE
    /\ Len(out) = 2

\* C3: checkAnyFulfills returns true iff some element of the source fulfils
\* the predicate (false for no elements), and its result is the negation of
\* checkAllFulfill over the same elements with the negated predicate.
C3_CheckAny ==
    Called("checkAnyFulfills") =>
        LET a == args.array
            negated == [element \in Int |-> element \notin args.sat]
        IN  /\ out[1].result = (\E i \in 1..Len(a) : a[i] \in args.sat)
            /\ a = <<>> => out[1].result = FALSE
            /\ out[1].result =
                  ~checkAllFulfill(<<ArrayIterator(a)>>, 1, negated).result

\* the test 'checkAnyFulfills finds single fulfilling value'
C3_Witness ==
    /\ Called("checkAnyFulfills")
    /\ args.array = <<1, 2, 3>>
    /\ args.sat = {2}
    /\ out[1].result = TRUE

(***************************************************************************)
(* Specification SpecZip: zip over a tuple of array iterators, pulled by   *)
(* the caller.  zip never looks at the values, so source x holds           *)
(* 10(x-1)+1, 10(x-1)+2, ...: 1,2,3 for the first, 11,12,13 for the        *)
(* second.  The tuple may name a source more than once; the order in       *)
(* which one step pulls then shows in the values.                          *)
(***************************************************************************)
SourceArray(x, len) == [j \in 1..len |-> 10 * (x - 1) + j]

ZipInputs ==
    UNION {[lens : [1..n -> 0..MaxLen], iterators : [1..m -> 1..n]] :
              n \in 1..MaxArity, m \in 1..MaxArity}

InitZip ==
    /\ args \in ZipInputs
    /\ heap = zip([x \in 1..Len(args.lens) |->
                      ArrayIterator(SourceArray(x, args.lens[x]))],
                  args.iterators).heap
    /\ out = <<>>

Finished(result) == IsError(result) \/ result.done

\* the caller pulls the zipped sequence, once more after it has finished
ZipNext ==
    /\ Cardinality({k \in 1..Len(out) : Finished(out[k])}) < 2
    /\ LET r == zipResume(heap, Len(heap)) IN
        /\ heap' = r.heap
        /\ out' = Append(out, r.result)
    /\ UNCHANGED args

NextZip == ZipNext

SpecZip == InitZip /\ [][NextZip]_vars

\* how often source x occurs among the first j places of the tuple
Occurrences(x, j) == Cardinality({i \in 1..j : args.iterators[i] = x})

\* what place j of the tuple gets at step s when every step pulls once from
\* every place, places in declaration order
Expected(s, j) ==
    LET x == args.iterators[j]
        before == (s - 1) * Occurrences(x, Len(args.iterators))
                  + Occurrences(x, j - 1)
    IN  IF before < args.lens[x]
        THEN Value(SourceArray(x, args.lens[x])[before + 1])
        ELSE Done

Places == 1..Len(args.iterators)

AllHaveValue(s) == \A j \in Places : ~Expected(s, j).done

AllExhausted(s) == \A j \in Places : Expected(s, j).done

\* the first step at which not every place has a value
LastStep == CHOOSE s \in 1..(MaxLen + 1) :
                /\ ~AllHaveValue(s)
                /\ \A t \in 1..(s - 1) : AllHaveValue(t)

\* C1: each step of zip pulls once from every iterator of the tuple in
\* declaration order; if all have a value it yields the tuple of the values and
\* continues, if all are exhausted the output ends normally, and if they
\* disagree the step raises the unequal-length error and yields nothing.
C1_Zip ==
    /\ \A k \in 1..Len(out) :
          out[k] = IF k < LastStep
                     THEN Value([j \in Places |-> Expected(k, j).value])
                   ELSE IF k = LastStep /\ ~AllExhausted(k)
                     THEN UnequalLength
                   ELSE Done
    /\ \A x \in 1..Len(args.lens) :
          LET steps == IF Len(out) < LastStep THEN Len(out) ELSE LastStep IN
          heap[x].pulls = steps * Occurrences(x, Len(args.iterators))
    /\ (args.lens = <<3, 3>> /\ args.iterators = <<1, 2>>) =>
          \A k \in 1..Len(out) :
              out[k] = <<Value(<<1, 11>>), Value(<<2, 12>>), Value(<<3, 13>>),
                         Done, Done>>[k]

\* zip of [1,2,3] and a two-element source: two tuples, then the error
C1_Witness ==
    /\ args.lens = <<3, 2>>
    /\ args.iterators = <<1, 2>>
    /\ Len(out) = 3
    /\ out[1] = Value(<<1, 11>>)
    /\ out[2] = Value(<<2, 12>>)
    /\ out[3] = UnequalLength

(***************************************************************************)
(* Specification SpecRange: a range or a repeat generator (object 1),      *)
(* pulled by the caller until it has reported exhaustion twice.            *)
(***************************************************************************)
Steps == {stepSize \in (-MaxStep)..MaxStep : stepSize # 0}

RangeInputs ==
    [fn : {"range"}, start : (-MaxRange)..MaxRange, stop : (-MaxRange)..MaxRange,
     stepSize : Steps, stopIncluded : BOOLEAN]

RepeatInputs == [fn : {"repeat"}, value : Values, times : 0..MaxTimes]

InitRange ==
    /\ args \in RangeInputs \cup RepeatInputs
    /\ heap = IF args.fn = "range"
              THEN range(<<>>, args.start, args.stop, args.stepSize,
                         args.stopIncluded).heap
              ELSE repeat(<<>>, args.value, args.times).heap
    /\ out = <<>>

GeneratorNext ==
    /\ Cardinality({k \in 1..Len(out) : out[k].done}) < 2
    /\ LET r == IterNext(heap, 1) IN
        /\ heap' = r.heap
        /\ out' = Append(out, r.result)
    /\ UNCHANGED args

RangeNext == args.fn = "range" /\ GeneratorNext

RepeatNext == args.fn = "repeat" /\ GeneratorNext

NextRange == RangeNext \/ RepeatNext

SpecRange == InitRange /\ [][NextRange]_vars

\* the number of values start + n*stepSize, n >= 0, before stop in the
\* direction of stepSize
CountBefore(start, stop, stepSize) ==
    Cardinality({n \in 0..(2 * MaxRange) :
                    IF stepSize > 0 THEN start + n * stepSize < stop
                                    ELSE start + n * stepSize > stop})

ExpectedRange(start, stop, stepSize, stopIncluded) ==
    [n \in 1..CountBefore(start, stop, stepSize) |-> start + (n - 1) * stepSize]
        \o (IF stopIncluded THEN <<stop>> ELSE <<>>)

\* the caller got exactly the values of expected, in order, and then exhaustion
Yields(expected) ==
    \A k \in 1..Len(out) :
        out[k] = IF k <= Len(expected) THEN Value(expected[k]) ELSE Done

IsRangeCall(start, stop, stepSize, stopIncluded) ==
    /\ args.fn = "range"
    /\ args.start = start
    /\ args.stop = stop
    /\ args.stepSize = stepSize
    /\ args.stopIncluded = stopIncluded

\* C6: range yields start, start+stepSize, ... for exactly the values before
\* stop in the direction of stepSize, then stop once more iff stopIncluded
\* (whether or not the steps land on it or anything was yielded), then ends.
C6_Range ==
    /\ args.fn = "range" =>
          Yields(ExpectedRange(args.start, args.stop, args.stepSize,
                               args.stopIncluded))
    /\ IsRangeCall(0, 5, 1, FALSE) => Yields(<<0, 1, 2, 3, 4>>)
    /\ IsRangeCall(0, 5, 1, TRUE) => Yields(<<0, 1, 2, 3, 4, 5>>)
    /\ IsRangeCall(5, 0, -1, FALSE) => Yields(<<5, 4, 3, 2, 1>>)

\* range(0, 5, 2, true): the steps 0,2,4 do not land on 5, which is yielded last
C6_Witness ==
    /\ IsRangeCall(0, 5, 2, TRUE)
    /\ out = <<Value(0), Value(2), Value(4), Value(5), Done>>

\* C5 as stated: for every times >= 0, repeat(value, times) yields value
\* exactly times times and then ends.
C5_AsStated ==
    args.fn = "repeat" => Yields([n \in 1..args.times |-> args.value])

\* what the code does: max(times, 1) values
C5_RepeatAtLeastOnce ==
    args.fn = "repeat" =>
        Yields([n \in 1..(IF args.times = 0 THEN 1 ELSE args.times) |-> args.value])

(***************************************************************************)
(* Specification SpecPeek: a PeekableIterator (object 2) constructed over  *)
(* an array iterator (object 1); the caller calls peek() and next().       *)
(***************************************************************************)
InitPeek ==
    /\ args \in [array : Arrays]
    /\ heap = PeekableIteratorNew(<<ArrayIterator(args.array)>>, 1).heap
    /\ out = <<>>

\* what the caller sees of a call, whether the call changed any object, and
\* how often the source has been pulled when it returns
Observed(op, r) ==
    [op |-> op, result |-> r.result, changed |-> r.heap # heap,
     pulls |-> r.heap[1].pulls]

PeekNext ==
    /\ Len(out) < MaxCalls
    /\ LET r == PeekableIteratorNext(heap, 2) IN
        /\ heap' = r.heap
        /\ out' = Append(out, Observed("next", r))
    /\ UNCHANGED args

PeekPeek ==
    /\ Len(out) < MaxCalls
    /\ LET r == PeekableIteratorPeek(heap, 2) IN
        /\ heap' = r.heap
        /\ out' = Append(out, Observed("peek", r))
    /\ UNCHANGED args

NextPeek == PeekNext \/ PeekPeek

SpecPeek == InitPeek /\ [][NextPeek]_vars

\* the result of the n-th pull of the source
SourcePull(array, n) == IF n <= Len(array) THEN Value(array[n]) ELSE Done

\* the number of next() calls among the first k calls
Nexts(k) == Cardinality({i \in 1..k : out[i].op = "next"})

\* C7: peek() returns the result the following next() returns, pulls nothing
\* and changes nothing; the results of the next() calls are the source's pull
\* results in order, none skipped or duplicated; and the source has been
\* pulled 1 + (number of next() calls) times.
C7_Peekable ==
    /\ heap[1].pulls = 1 + Nexts(Len(out))
    /\ \A k \in 1..Len(out) :
          /\ out[k].pulls = 1 + Nexts(k)
          /\ out[k].op = "next" =>
                out[k].result = SourcePull(args.array, Nexts(k))
          /\ out[k].op = "peek" =>
                /\ ~out[k].changed
                /\ out[k].result = SourcePull(args.array, Nexts(k) + 1)
                /\ \A n \in (k + 1)..Len(out) :
                      (out[n].op = "next" /\ Nexts(n) = Nexts(k) + 1) =>
                          out[n].result = out[k].result

\* peek, next, peek, next on a two-element source, then next at its end
C7_Witness ==
    /\ Len(args.array) = 2
    /\ Len(out) = 5
    /\ out[1].op = "peek" /\ out[2].op = "next"
    /\ out[3].op = "peek" /\ out[4].op = "next"
    /\ out[5].op = "next" /\ out[5].result = Done

(***************************************************************************)
(* Specification SpecFacade: an IteratorObject (object 2, the original)    *)
(* over an array iterator (object 1).  The caller chains map, reverse or   *)
(* smear once, which returns a new IteratorObject (object 4) over the      *)
(* combinator's generator (object 3), and calls next() on either facade.   *)
(***************************************************************************)
OriginalFacade == 2

ReturnedFacade == 4

\* a mapping functor and the smear functor of the running sum
addTen == [element \in Values |-> element + 10]

InitFacade ==
    /\ args \in [array : Arrays]
    /\ heap = IteratorObjectNew(<<ArrayIterator(args.array)>>, 1).heap
    /\ out = <<>>

IsChained == Len(heap) >= ReturnedFacade

Event(op, on, h, result) ==
    [op |-> op, on |-> on, result |-> result, pulls |-> h[1].pulls]

FacadeMap ==
    /\ ~IsChained
    /\ LET r == IteratorObjectMap(heap, OriginalFacade, addTen) IN
        /\ heap' = r.heap
        /\ out' = Append(out, Event("map", OriginalFacade, r.heap, [id |-> r.id]))
    /\ UNCHANGED args

FacadeReverse ==
    /\ ~IsChained
    /\ LET r == IteratorObjectReverse(heap, OriginalFacade) IN
        /\ heap' = r.heap
        /\ out' = Append(out, Event("reverse", OriginalFacade, r.heap, [id |-> r.id]))
    /\ UNCHANGED args

FacadeSmear ==
    /\ ~IsChained
    /\ LET r == IteratorObjectSmear(heap, OriginalFacade, sumFunctor, 0) IN
        /\ heap' = r.heap
        /\ out' = Append(out, Event("smear", OriginalFacade, r.heap, [id |-> r.id]))
    /\ UNCHANGED args

OriginalNext ==
    /\ Len(out) < MaxCalls
    /\ LET r == IterNext(heap, OriginalFacade) IN
        /\ heap' = r.heap
        /\ out' = Append(out, Event("next", OriginalFacade, r.heap, r.result))
    /\ UNCHANGED args

ReturnedNext ==
    /\ IsChained
    /\ Len(out) < MaxCalls
    /\ LET r == IterNext(heap, ReturnedFacade) IN
        /\ heap' = r.heap
        /\ out' = Append(out, Event("next", ReturnedFacade, r.heap, r.result))
    /\ UNCHANGED args

NextFacade ==
    FacadeMap \/ FacadeReverse \/ FacadeSmear \/ OriginalNext \/ ReturnedNext

SpecFacade == InitFacade /\ [][NextFacade]_vars

Chainings == {"map", "reverse", "smear"}

\* the calls of next() on facade `on`, and those made after the chaining call
NextsOn(on) == {k \in 1..Len(out) : out[k].op = "next" /\ out[k].on = on}

AfterChaining(k) == \E c \in 1..(k - 1) : out[c].op \in Chainings

PullsBefore(k) == IF k = 1 THEN 0 ELSE out[k - 1].pulls

\* the positions of the source elements that call k pulled
PositionsOf(k) ==
    {n \in (PullsBefore(k) + 1)..out[k].pulls : n <= Len(args.array)}

NthSmallest(S, n) == CHOOSE x \in S : Cardinality({y \in S : y <= x}) = n

\* the source elements that went into the returned facade's generator, in order
Consumed ==
    LET positions == UNION {PositionsOf(k) : k \in NextsOn(ReturnedFacade)} IN
    [n \in 1..Cardinality(positions) |-> args.array[NthSmallest(positions, n)]]

\* the values the returned facade has handed out, in order
HandedOut ==
    LET calls == {k \in NextsOn(ReturnedFacade) : ~out[k].result.done} IN
    [n \in 1..Cardinality(calls) |-> out[NthSmallest(calls, n)].result.value]

\* C8 as stated: after a chaining operation the original is exhausted: its
\* next() returns the exhaustion signal and delivers no element of the source.
C8_AsStated ==
    \A k \in NextsOn(OriginalFacade) : AfterChaining(k) => out[k].result.done

\* C8 amended: a chaining call pulls nothing and leaves the original on the
\* same source as the returned facade's generator, not exhausted: next() on
\* the original, before or after the chaining, pulls the source once and
\* returns that pull's result.  Every source element is pulled once, so it is
\* handed out by the original or goes into the returned facade's output
\* (mapped, summed or reversed), never both.
C8_SharedSource ==
    /\ \A k \in 1..Len(out) :
          /\ out[k].op \in Chainings => out[k].pulls = PullsBefore(k)
          /\ (out[k].op = "next" /\ out[k].on = OriginalFacade) =>
                /\ out[k].pulls = PullsBefore(k) + 1
                /\ out[k].result = SourcePull(args.array, out[k].pulls)
          /\ (out[k].op = "next" /\ out[k].on = ReturnedFacade /\ out[k].result.done) =>
                out[k].pulls > Len(args.array)
    /\ \A c \in 1..Len(out) :
          /\ out[c].op = "map" =>
                HandedOut = [n \in 1..Len(Consumed) |-> addTen[Consumed[n]]]
          /\ out[c].op = "smear" =>
                HandedOut = [n \in 1..Len(Consumed) |-> Sum(SubSeq(Consumed, 1, n))]
          /\ out[c].op = "reverse" =>
                /\ Len(HandedOut) <= Len(Consumed)
                /\ HandedOut = [n \in 1..Len(HandedOut) |->
                                  Consumed[Len(Consumed) + 1 - n]]

\* map is chained, then the original and the returned facade both hand out
\* an element of the source
C8_Witness ==
    /\ Len(out) = 4
    /\ out[1].op = "next" /\ out[1].on = OriginalFacade /\ ~out[1].result.done
    /\ out[2].op = "map"
    /\ out[3].op = "next" /\ out[3].on = ReturnedFacade /\ ~out[3].result.done
    /\ out[4].op = "next" /\ out[4].on = OriginalFacade /\ ~out[4].result.done

(***************************************************************************)
(* Specification SpecReverse: reverse(S) or reverse(reverse(S)) over an    *)
(* array iterator S (object 1); the caller pulls the outermost generator   *)
(* with next() and drains it with spread().                                *)
(***************************************************************************)
InitReverse ==
    /\ args \in [array : Arrays, depth : {1, 2}]
    /\ heap = LET once == reverse(<<ArrayIterator(args.array)>>, 1) IN
              IF args.depth = 1 THEN once.heap
              ELSE reverse(once.heap, once.id).heap
    /\ out = <<>>

Outermost == Len(heap)

\* the calls after which the generator is known to be finished
Ended == {k \in 1..Len(out) : out[k].op = "spread" \/ out[k].result.done}

ReverseNext ==
    /\ Cardinality(Ended) < 2
    /\ LET r == IterNext(heap, Outermost) IN
        /\ heap' = r.heap
        /\ out' = Append(out, [op |-> "next", result |-> r.result])
    /\ UNCHANGED args

ReverseSpread ==
    /\ Cardinality(Ended) < 2
    /\ LET r == spread(heap, Outermost) IN
        /\ heap' = r.heap
        /\ out' = Append(out, [op |-> "spread", result |-> r.array])
    /\ UNCHANGED args

NextReverse == ReverseNext \/ ReverseSpread

SpecReverse == InitReverse /\ [][NextReverse]_vars

BackToFront(s) == [n \in 1..Len(s) |-> s[Len(s) + 1 - n]]

\* the sequence the outermost generator is to produce
ExpectedReverse == IF args.depth = 1 THEN BackToFront(args.array) ELSE args.array

\* the number of elements handed out by the calls before call k
HandedOutBefore(k) ==
    IF \E e \in Ended : e < k
    THEN Len(args.array)
    ELSE k - 1

\* C9: reverse(S) yields the elements of S back to front, as many as S has,
\* and so spread(reverse(reverse(S))) is spread(S).
C9_Reverse ==
    /\ \A k \in 1..Len(out) :
          LET before == HandedOutBefore(k) IN
          /\ out[k].op = "next" =>
                out[k].result = SourcePull(ExpectedReverse, before + 1)
          /\ out[k].op = "spread" =>
                out[k].result =
                    SubSeq(ExpectedReverse, before + 1, Len(args.array))
    /\ (args.depth = 2 /\ out # <<>> /\ out[1].op = "spread") =>
          out[1].result = spread(<<ArrayIterator(args.array)>>, 1).array

\* spread(reverse(reverse(S))) for an S of three elements not all equal
C9_Witness ==
    /\ args.depth = 2
    /\ Len(args.array) = 3
    /\ args.array[1] # args.array[3]
    /\ out # <<>>
    /\ out[1].op = "spread"
    /\ out[1].result = args.array

====
